---- MODULE Spec2Model ----
(***************************************************************************)
(* Model of the LRU cache of src/src/lib.rs (LRUCache<K, V>).              *)
(*                                                                         *)
(* The cache owns a HashSet of shared entry handles (kv_storage) and an    *)
(* intrusive linked list of the same entries (recency_queue), front =      *)
(* least recently used.  An entry is the record [key, value]; the strong   *)
(* count of the Rc behind the entry stored under a key is kept in          *)
(* strong_count.  Every public operation is one action; an assertion of    *)
(* the code that fails stops the program and is recorded in panic.         *)
(***************************************************************************)
EXTENDS Integers, Sequences, FiniteSets, TLC

\* Bounds of the model
NumKeys == 3
NumVals == 2
MaxCap == 3

KeySet == 1..NumKeys
ValSet == 1..NumVals
\* capacities of plain u32 type, zero among them
CapSet_with_zero == 0..MaxCap

\* the NonZeroU32 capacities that are tried
CapSet == 1..MaxCap

VARIABLES
    kv_storage,      \* LRUCache::kv_storage: set of entries, unique by key
    recency_queue,   \* LRUCache::recency_queue: sequence of entries, front first
    max_len,         \* LRUCache::max_len
    strong_count,    \* Rc strong count of the node stored under each key
    panic,           \* "" or the assertion that failed
    observer,        \* which record is kept of a run: "call" or "history"
    op,              \* the last public operation and its arguments
    ret,             \* what the last public operation returned
    pre,             \* the cache as it was before the last public operation
    touchOrder,      \* history: keys in the order of their last touch
    lastIns,         \* history: value of the latest insert of each cached key (else 0)
    watched,         \* history: a key whose last touch was a get that hit, picked
                     \* by the observer among those gets (0: none)
    ref,             \* reference: the reference LRU cache run on the same calls
    agree            \* reference: results and entries equalled the reference's

vars == <<kv_storage, recency_queue, max_len, strong_count, panic, observer,
          op, ret,
          pre, touchOrder, lastIns, watched, ref, agree>>

----------------------------------------------------------------------------
\* Option<T> and tuples

None == <<>>
Some(x) == <<x>>
Pair(k, v) == <<k, v>>

\* Node { key, value, link }
Node(k, v) == [key |-> k, value |-> v]

\* RefNode::into_pair, the pair only (the strong count assertion is at the callers)
into_pair(e) == Pair(e.key, e.value)

----------------------------------------------------------------------------
\* Sequences

Range(s) == {s[i] : i \in 1..Len(s)}

\* the sequence without its i-th element
RemoveAt(s, i) == SubSeq(s, 1, i - 1) \o SubSeq(s, i + 1, Len(s))

\* Unlink with the node left in the list
Unlink_kept(s, e) == s

\* Unlink with the cursor at the front of the list instead of at the node e
Unlink_front(s, e) == Tail(s)

\* CursorMut::remove at the node e: unlinks that node, leaves the others in order
Unlink(s, e) ==
    IF e \in Range(s)
    THEN RemoveAt(s, CHOOSE i \in 1..Len(s) :
                        s[i] = e /\ \A j \in 1..(i - 1) : s[j] # e)
    ELSE s

\* pop_front taking the node at the back
pop_front_back(q) == [node |-> q[Len(q)], rest |-> SubSeq(q, 1, Len(q) - 1)]

\* LinkedList::pop_front on a non-empty list: the node taken and the rest
pop_front(q) == [node |-> Head(q), rest |-> Tail(q)]

\* front_remove taking the node at the back
front_remove_back(q) == [node |-> q[Len(q)], rest |-> SubSeq(q, 1, Len(q) - 1)]

\* LinkedList::front_mut().remove() on a non-empty list
front_remove(q) == [node |-> Head(q), rest |-> Tail(q)]


----------------------------------------------------------------------------
\* The cache as a value, threaded through the private helpers

Self == [kv_storage |-> kv_storage, recency_queue |-> recency_queue,
         max_len |-> max_len, strong_count |-> strong_count, panic |-> ""]

\* a failed assert!: the first failure is kept
Fail(c, what) == IF c.panic = "" THEN [c EXCEPT !.panic = what] ELSE c

\* StgGet with a PartialEq for RefNode that holds of any two nodes: a lookup
\* of a missing key answers with another entry
StgGet_eq_always(stg, k) ==
    IF \E e \in stg : e.key = k
    THEN Some(CHOOSE e \in stg : e.key = k)
    ELSE IF stg # {} THEN Some(CHOOSE e \in stg : TRUE)
    ELSE None

\* HashSet::get with a borrowed key (RefNode hashes and compares by key only)
StgGet(stg, k) ==
    IF \E e \in stg : e.key = k
    THEN Some(CHOOSE e \in stg : e.key = k)
    ELSE None

\* StgRemove that leaves the element in the set
StgRemove_kept(stg, k) == stg

\* HashSet::remove with a borrowed key
StgRemove(stg, k) == {e \in stg : e.key # k}

\* HashSet::insert: an element with an equal key is kept, the new one dropped
StgInsert(stg, e) == IF \E x \in stg : x.key = e.key THEN stg ELSE stg \cup {e}

\* LRUCache::len
len(c) == Cardinality(c.kv_storage)

\* LinkedListLink::is_linked
is_linked(c, e) == e \in Range(c.recency_queue)

\* self.kv_storage.remove(key): the handle held by the index is dropped
storage_remove(c, k) ==
    [c EXCEPT !.kv_storage = StgRemove(@, k),
              !.strong_count[k] =
                  IF \E x \in c.kv_storage : x.key = k THEN @ - 1 ELSE @]

\* unlink_entry that keeps the handle of the queue alive
unlink_entry_leaked(c, entry) ==
    [c EXCEPT !.recency_queue = Unlink(@, entry)]

\* entry_cursor.remove() in drop_from_queue: the handle of the queue is dropped
unlink_entry(c, entry) ==
    [c EXCEPT !.recency_queue = Unlink(@, entry),
              !.strong_count[entry.key] = @ - 1]

\* LRUCache::drop_from_queue
drop_from_queue(c, entry) ==
    IF ~is_linked(c, entry) THEN Fail(c, "drop_from_queue: is_linked")
    ELSE IF c.strong_count[entry.key] # 2
    THEN Fail(c, "drop_from_queue: strong count 2")
    ELSE IF c.strong_count[entry.key] - 1 # 1
    THEN Fail(unlink_entry(c, entry), "drop_from_queue: strong count 1")
    ELSE unlink_entry(c, entry)

\* LRUCache::max_len: its own assertion, the value is c.max_len
max_len_checked(c) ==
    IF len(c) <= c.max_len THEN c ELSE Fail(c, "max_len: len <= max_len")

\* has_collision that reports the reason of the other arm, FirstInQueue
has_collision_as_eviction(c1, found) ==
    [c |-> IF c1.panic = ""
           THEN [c1 EXCEPT !.strong_count[found[1].key] = @ + 1]
           ELSE c1,
     to_remove |-> found, reason |-> "FirstInQueue"]

\* the arm Some(to_remove): c1 is the cache after drop_from_queue
has_collision(c1, found) ==
    [c |-> IF c1.panic = ""
           THEN [c1 EXCEPT !.strong_count[found[1].key] = @ + 1]
           ELSE c1,
     to_remove |-> found, reason |-> "HasCollision"]

\* the arm None if len() == max_len(): taken is the removed front of the queue
first_in_queue(c, taken) ==
    [c |-> [c EXCEPT !.recency_queue = taken.rest],
     to_remove |-> Some(taken.node), reason |-> "FirstInQueue"]

\* drop_match that tests for a full cache before it looks the key up
drop_match_full_first(c, found) ==
    IF ~(len(c) <= c.max_len)
    THEN [c |-> Fail(c, "max_len: len <= max_len"),
          to_remove |-> None, reason |-> "None"]
    ELSE IF len(c) = c.max_len
    THEN IF c.recency_queue = <<>>
         THEN [c |-> Fail(c, "drop_before_insertion: to_remove.is_some"),
               to_remove |-> None, reason |-> "None"]
         ELSE first_in_queue(c, front_remove(c.recency_queue))
    ELSE IF found # None
    THEN has_collision(drop_from_queue(c, found[1]), found)
    ELSE [c |-> c, to_remove |-> None, reason |-> "None"]

\* drop_match evicting one entry early: `len() + 1 >= max_len()` in the guard
drop_match_early(c, found) ==
    IF found # None
    THEN has_collision(drop_from_queue(c, found[1]), found)
    ELSE IF ~(len(c) <= c.max_len)
    THEN [c |-> Fail(c, "max_len: len <= max_len"),
          to_remove |-> None, reason |-> "None"]
    ELSE IF len(c) + 1 >= c.max_len
    THEN IF c.recency_queue = <<>>
         THEN [c |-> Fail(c, "drop_before_insertion: to_remove.is_some"),
               to_remove |-> None, reason |-> "None"]
         ELSE first_in_queue(c, front_remove(c.recency_queue))
    ELSE [c |-> c, to_remove |-> None, reason |-> "None"]

\* the match of drop_before_insertion on kv_storage.get(key) = found
drop_match(c, found) ==
    IF found # None
    THEN has_collision(drop_from_queue(c, found[1]), found)
    ELSE IF ~(len(c) <= c.max_len)
    THEN [c |-> Fail(c, "max_len: len <= max_len"),
          to_remove |-> None, reason |-> "None"]
    ELSE IF len(c) = c.max_len
    THEN IF c.recency_queue = <<>>
         THEN [c |-> Fail(c, "drop_before_insertion: to_remove.is_some"),
               to_remove |-> None, reason |-> "None"]
         ELSE first_in_queue(c, front_remove(c.recency_queue))
    ELSE [c |-> c, to_remove |-> None, reason |-> "None"]

\* drop_before_insertion after kv_storage.remove: c2 is the cache, e the node
\* removed; the result is the cache and the handle handed back on a collision
\* (with the strong count of its node)
drop_checked(init_len, reason, e, was_removed, c2) ==
    IF ~was_removed
    THEN [c |-> Fail(c2, "drop_before_insertion: was_removed"),
          removed |-> None]
    ELSE IF init_len - 1 # len(c2)
    THEN [c |-> Fail(c2, "drop_before_insertion: init_len - 1"),
          removed |-> None]
    ELSE IF ~(len(c2) < c2.max_len)
    THEN [c |-> Fail(c2, "drop_before_insertion: len < max_len"),
          removed |-> None]
    ELSE IF reason = "HasCollision"
    THEN [c |-> [c2 EXCEPT !.strong_count[e.key] = 0],
          removed |-> Some([key |-> e.key, value |-> e.value,
                            strong |-> c2.strong_count[e.key]])]
    ELSE [c |-> [c2 EXCEPT !.strong_count[e.key] = @ - 1],
          removed |-> None]

\* drop_before_insertion after the match m
drop_matched(init_len, m) ==
    IF m.c.panic # "" \/ m.reason = "None"
    THEN [c |-> m.c, removed |-> None]
    ELSE drop_checked(init_len, m.reason, m.to_remove[1],
                      \E x \in m.c.kv_storage : x.key = m.to_remove[1].key,
                      storage_remove(m.c, m.to_remove[1].key))

\* LRUCache::drop_before_insertion
drop_before_insertion(c, key) ==
    drop_matched(len(c), drop_match(c, StgGet(c.kv_storage, key)))

\* push_entry: the new node in the index (a clone) and at the back of the queue
pushed(c, entry) ==
    [c EXCEPT !.kv_storage = StgInsert(@, entry),
              !.recency_queue = Append(@, entry),
              !.strong_count[entry.key] =
                  IF \E x \in c.kv_storage : x.key = entry.key
                  THEN 1 ELSE 2]

\* the assertions at the end of push_entry on the pushed node and the node
\* the index holds under its key (the same node only if the index took it)
push_compared(c1, inserted, pushed_to_queue, pushed_to_stg) ==
    IF pushed_to_stg = None
    THEN Fail(c1, "push_entry: pushed_to_stg.is_some")
    ELSE IF ~inserted \/ c1.strong_count[pushed_to_queue.key] # 2
    THEN Fail(c1, "push_entry: strong count 2")
    ELSE IF pushed_to_stg[1] # pushed_to_queue
    THEN Fail(c1, "push_entry: ptr::eq")
    ELSE c1

\* push_entry after the push: c1 is the cache
push_checked(c1, inserted) ==
    IF ~(len(c1) <= c1.max_len)
    THEN Fail(c1, "push_entry: len <= max_len")
    ELSE push_compared(c1, inserted,
                       c1.recency_queue[Len(c1.recency_queue)],
                       StgGet(c1.kv_storage,
                              c1.recency_queue[Len(c1.recency_queue)].key))

\* LRUCache::push_entry
push_entry(c, key, val) ==
    IF ~(len(c) < c.max_len) THEN Fail(c, "push_entry: len < max_len")
    ELSE push_checked(pushed(c, Node(key, val)),
                      ~(\E x \in c.kv_storage : x.key = key))

\* removed_pair with the replaced entry discarded
removed_pair_discarded(removed_val) == None

\* removed_val.map(|key_val| key_val.into_pair())
removed_pair(removed_val) ==
    IF removed_val = None THEN None ELSE Some(into_pair(removed_val[1]))

\* insert after push_entry: c1 is the cache, removed_val the replaced handle
insert_pushed(c1, removed_val) ==
    IF c1.panic # "" THEN [c |-> c1, ret |-> None]
    ELSE IF ~(len(c1) <= c1.max_len)
    THEN [c |-> Fail(c1, "insert: len <= max_len"), ret |-> None]
    ELSE IF removed_val # None /\ removed_val[1].strong # 1
    THEN [c |-> Fail(c1, "insert: removed strong count 1"), ret |-> None]
    ELSE [c |-> c1, ret |-> removed_pair(removed_val)]

\* insert after drop_before_insertion returned d
insert_dropped(d, key, val) ==
    IF d.c.panic # "" THEN [c |-> d.c, ret |-> None]
    ELSE insert_pushed(push_entry(d.c, key, val), d.removed)

\* LRUCache::insert: the cache afterwards and the returned Option<(K, V)>
insert(c, key, val) ==
    IF ~(len(c) <= c.max_len)
    THEN [c |-> Fail(c, "insert: len <= max_len"), ret |-> None]
    ELSE insert_dropped(drop_before_insertion(c, key), key, val)

\* get after drop_from_queue: the entry goes to the back of the queue
get_renewed(c1, entry) ==
    IF c1.panic # "" THEN [c |-> c1, ret |-> None]
    ELSE [c |-> [c1 EXCEPT !.recency_queue = Append(@, entry),
                           !.strong_count[entry.key] = @ + 1],
          ret |-> Some(entry.value)]

\* the closure of get on kv_storage.get(key) = found
get_found(c, found) ==
    IF found = None THEN [c |-> c, ret |-> None]
    ELSE get_renewed(drop_from_queue(c, found[1]), found[1])

\* get without the move to the back of the queue
get_no_renewal(c, key) ==
    IF StgGet(c.kv_storage, key) = None THEN [c |-> c, ret |-> None]
    ELSE [c |-> c, ret |-> Some(StgGet(c.kv_storage, key)[1].value)]

\* LRUCache::get: the cache afterwards and the returned Option<&V>
get(c, key) == get_found(c, StgGet(c.kv_storage, key))

\* one round of the loop of resize after kv_storage.remove: c1 is the cache
resize_removed(c1, removed, was_removed) ==
    IF ~was_removed THEN Fail(c1, "resize: was_removed")
    ELSE IF c1.strong_count[removed.key] # 1
    THEN Fail(c1, "resize: strong count 1")
    ELSE [c1 EXCEPT !.strong_count[removed.key] = 0]

\* one round of the loop of resize: taken is the popped front of the queue
resize_round(c, taken) ==
    resize_removed(storage_remove([c EXCEPT !.recency_queue = taken.rest],
                                  taken.node.key),
                   taken.node,
                   \E x \in c.kv_storage : x.key = taken.node.key)

RECURSIVE resize_loop(_, _, _)

\* the body of the loop of resize: taken is the popped front of the queue
resize_body(c, todo, all_removed, taken) ==
    resize_loop(resize_round(c, taken), todo - 1,
                Append(all_removed, into_pair(taken.node)))

\* the loop of LRUCache::resize: todo evictions from the front, all_removed so far
resize_loop(c, todo, all_removed) ==
    IF todo = 0 \/ c.panic # "" THEN [c |-> c, ret |-> all_removed]
    ELSE IF c.recency_queue = <<>>
    THEN [c |-> Fail(c, "resize: removed.is_some"), ret |-> all_removed]
    ELSE resize_body(c, todo, all_removed, pop_front(c.recency_queue))

\* resize_range stopping one eviction early
resize_range_short(c, new_max_len) ==
    IF len(c) > new_max_len + 1 THEN len(c) - new_max_len - 1 ELSE 0

\* the number of iterations of `for _ in new_max_len..self.len()`
resize_range(c, new_max_len) ==
    IF len(c) > new_max_len THEN len(c) - new_max_len ELSE 0

\* resize after the loop: the new capacity is stored
resize_done(r, new_max_len) ==
    IF r.c.panic # "" THEN r
    ELSE [c |-> [r.c EXCEPT !.max_len = new_max_len], ret |-> r.ret]

\* resize without `self.max_len = new_max_len` after the loop
resize_keeps_max_len(c, new_max_len) ==
    IF new_max_len >= c.max_len
    THEN IF ~(len(c) <= c.max_len)
         THEN [c |-> Fail(c, "max_len: len <= max_len"), ret |-> <<>>]
         ELSE [c |-> [c EXCEPT !.max_len = new_max_len], ret |-> <<>>]
    ELSE IF c.kv_storage = {}
    THEN [c |-> c, ret |-> <<>>]
    ELSE resize_loop(c, resize_range(c, new_max_len), <<>>)

\* resize with the first comparison the wrong way round
resize_compare_reversed(c, new_max_len) ==
    IF new_max_len <= c.max_len
    THEN IF ~(len(c) <= c.max_len)
         THEN [c |-> Fail(c, "max_len: len <= max_len"), ret |-> <<>>]
         ELSE [c |-> [c EXCEPT !.max_len = new_max_len], ret |-> <<>>]
    ELSE IF c.kv_storage = {}
    THEN [c |-> c, ret |-> <<>>]
    ELSE resize_done(resize_loop(c, resize_range(c, new_max_len), <<>>),
                     new_max_len)

\* LRUCache::resize: the cache afterwards and the returned Vec<(K, V)>
resize(c, new_max_len) ==
    IF new_max_len >= c.max_len
    THEN IF ~(len(c) <= c.max_len)
         THEN [c |-> Fail(c, "max_len: len <= max_len"), ret |-> <<>>]
         ELSE [c |-> [c EXCEPT !.max_len = new_max_len], ret |-> <<>>]
    ELSE IF c.kv_storage = {}
    THEN [c |-> c, ret |-> <<>>]
    ELSE resize_done(resize_loop(c, resize_range(c, new_max_len), <<>>),
                     new_max_len)

\* Orders that may yield an element again instead of another
Orders_with_repeats(S) == [1..Cardinality(S) -> S]

\* the orders in which HashSet::iter may yield the elements of a set
Orders(S) ==
    {s \in [1..Cardinality(S) -> S] :
        \A i, j \in 1..Cardinality(S) : i # j => s[i] # s[j]}

\* LRUCache::iter: the items in one of the possible orders
iter(c, order) == [i \in 1..Len(order) |-> Pair(order[i].key, order[i].value)]

----------------------------------------------------------------------------
\* History of the touches (not program state)

\* k becomes the most recently touched key
Touch(order, k) == SelectSeq(order, LAMBDA x : x # k) \o <<k>>

\* the latest inserted values, kept for the keys of stg only
Latest(ins, stg) ==
    [k \in KeySet |-> IF \E e \in stg : e.key = k THEN ins[k] ELSE 0]

----------------------------------------------------------------------------
\* The reference LRU cache (not program state): the present keys by the time
\* of their last touch, oldest first, their values (0: absent) and the capacity

RefNew(n) == [order |-> <<>>, vals |-> [k \in KeySet |-> 0], cap |-> n]

\* the reference's insert: replace the value, or add the key after evicting
\* the key of the oldest touch when the capacity is used up
RefInsert(r, k, v) ==
    IF r.vals[k] # 0
    THEN [ref |-> [r EXCEPT !.vals[k] = v, !.order = Touch(@, k)],
          ret |-> Some(Pair(k, r.vals[k]))]
    ELSE IF Len(r.order) >= r.cap
    THEN [ref |-> [r EXCEPT !.vals = [@ EXCEPT ![Head(r.order)] = 0, ![k] = v],
                            !.order = Append(Tail(@), k)],
          ret |-> None]
    ELSE [ref |-> [r EXCEPT !.vals[k] = v, !.order = Append(@, k)],
          ret |-> None]

\* the reference's get: a hit is a touch
RefGet(r, k) ==
    IF r.vals[k] = 0 THEN [ref |-> r, ret |-> None]
    ELSE [ref |-> [r EXCEPT !.order = Touch(@, k)], ret |-> Some(r.vals[k])]

\* the number of keys the reference has above n
RefExcess(r, n) == IF Len(r.order) > n THEN Len(r.order) - n ELSE 0

\* the reference's resize: the capacity becomes n and the keys of the oldest
\* touches above n are evicted and returned, oldest first
RefResize(r, n) ==
    [ref |-> [order |-> SubSeq(r.order, RefExcess(r, n) + 1, Len(r.order)),
              vals |-> [k \in KeySet |->
                          IF \E i \in 1..RefExcess(r, n) : r.order[i] = k
                          THEN 0 ELSE r.vals[k]],
              cap |-> n],
     ret |-> [i \in 1..RefExcess(r, n) |-> Pair(r.order[i], r.vals[r.order[i]])]]

\* the entries of the reference r in the order of their last touch
RefEntries(r) == [i \in 1..Len(r.order) |-> Node(r.order[i], r.vals[r.order[i]])]

----------------------------------------------------------------------------
\* The public operations.  A run is watched by one of three observers: "call"
\* records the last call (op, ret, pre), "history" records the touches
\* (touchOrder, watched), "reference" runs the reference LRU cache beside the
\* cache (ref, agree).  None is read by the cache.

Observers == {"call", "history", "reference"}

Snapshot == [kv_storage |-> kv_storage, recency_queue |-> recency_queue,
             max_len |-> max_len, strong_count |-> strong_count]

Call(name, k, v, n) == [name |-> name, key |-> k, val |-> v, n |-> n]

\* the "call" observer notes the call, its result and the cache before it
RecordCall(call, result) ==
    IF observer = "call"
    THEN op' = call /\ ret' = result /\ pre' = Snapshot
    ELSE UNCHANGED <<op, ret, pre>>

\* the "history" observer notes the touch order and the key it watches
RecordTouch(order, w) ==
    IF observer = "history"
    THEN touchOrder' = order /\ watched' = w
    ELSE UNCHANGED <<touchOrder, watched>>

\* the "reference" observer runs the reference on the call and compares the
\* result and the entries; at the first difference it stops and clears the
\* reference
RecordRef(step, result) ==
    IF observer = "reference" /\ agree
    THEN /\ agree' = (step.ret = result /\ recency_queue' = RefEntries(step.ref))
         /\ ref' = IF agree' THEN step.ref ELSE RefNew(step.ref.cap)
    ELSE UNCHANGED <<ref, agree>>

\* the cache becomes c
Becomes(c) ==
    /\ kv_storage' = c.kv_storage
    /\ recency_queue' = c.recency_queue
    /\ max_len' = c.max_len
    /\ strong_count' = c.strong_count
    /\ panic' = c.panic

\* the call returned r: the cache becomes r.c and the result is r.ret
Returns(r, call) == Becomes(r.c) /\ RecordCall(call, r.ret)

\* LRUCache::with_max_len(n); LRUCache::new() is the same cache with n = 1
Init ==
    /\ kv_storage = {}
    /\ recency_queue = <<>>
    /\ observer \in Observers
    /\ \E n \in CapSet :
         /\ max_len = n
         /\ IF observer = "call"
            THEN /\ op \in {Call("with_max_len", 0, 0, n)}
                           \cup (IF n = 1 THEN {Call("new", 0, 0, 0)} ELSE {})
                 /\ pre = [kv_storage |-> {}, recency_queue |-> <<>>,
                           max_len |-> n,
                           strong_count |-> [k \in KeySet |-> 0]]
            ELSE /\ op = Call("", 0, 0, 0)
                 /\ pre = [kv_storage |-> {}, recency_queue |-> <<>>,
                           max_len |-> 0,
                           strong_count |-> [k \in KeySet |-> 0]]
         /\ ref = RefNew(IF observer = "reference" THEN n ELSE 0)
    /\ agree = TRUE
    /\ strong_count = [k \in KeySet |-> 0]
    /\ panic = ""
    /\ ret = None
    /\ touchOrder = <<>>
    /\ lastIns = [k \in KeySet |-> 0]
    /\ watched = 0

Insert(k, v) ==
    /\ panic = ""
    /\ Returns(insert(Self, k, v), Call("insert", k, v, 0))
    /\ RecordTouch(Touch(touchOrder, k), IF watched = k THEN 0 ELSE watched)
    /\ lastIns' = Latest([lastIns EXCEPT ![k] = v], kv_storage')
    /\ RecordRef(RefInsert(ref, k, v), insert(Self, k, v).ret)
    /\ UNCHANGED observer

Get(k) ==
    /\ panic = ""
    /\ Returns(get(Self, k), Call("get", k, 0, 0))
    /\ IF StgGet(kv_storage, k) # None
       THEN \E w \in {watched, k} : RecordTouch(Touch(touchOrder, k), w)
       ELSE UNCHANGED <<touchOrder, watched>>
    /\ lastIns' = Latest(lastIns, kv_storage')
    /\ RecordRef(RefGet(ref, k), get(Self, k).ret)
    /\ UNCHANGED observer

Resize(n) ==
    /\ panic = ""
    /\ Returns(resize(Self, n), Call("resize", 0, 0, n))
    /\ lastIns' = Latest(lastIns, kv_storage')
    /\ RecordRef(RefResize(ref, n), resize(Self, n).ret)
    /\ UNCHANGED <<touchOrder, watched, observer>>

Iter ==
    /\ panic = ""
    /\ \E order \in Orders(kv_storage) :
           RecordCall(Call("iter", 0, 0, 0), iter(Self, order))
    /\ UNCHANGED <<kv_storage, recency_queue, max_len, strong_count, panic,
                   touchOrder, lastIns, watched, ref, agree, observer>>

LenCall ==
    /\ panic = ""
    /\ RecordCall(Call("len", 0, 0, 0), len(Self))
    /\ UNCHANGED <<kv_storage, recency_queue, max_len, strong_count, panic,
                   touchOrder, lastIns, watched, ref, agree, observer>>

MaxLenCall ==
    /\ panic = ""
    /\ Becomes(max_len_checked(Self))
    /\ RecordCall(Call("max_len", 0, 0, 0), max_len)
    /\ UNCHANGED <<touchOrder, lastIns, watched, ref, agree, observer>>

Next ==
    \/ \E k \in KeySet, v \in ValSet : Insert(k, v)
    \/ \E k \in KeySet : Get(k)
    \/ \E n \in CapSet : Resize(n)
    \/ Iter
    \/ LenCall
    \/ MaxLenCall

Spec == Init /\ [][Next]_vars

----------------------------------------------------------------------------
\* Observations used by the properties

Keys(stg) == {e.key : e \in stg}

\* the entry stored under key k in stg (k is a key of stg)
EntryOf(stg, k) == CHOOSE e \in stg : e.key = k

\* q without the entries of key k
WithoutKey(q, k) == SelectSeq(q, LAMBDA e : e.key # k)

\* a comes before b in the sequence order
Before(order, a, b) ==
    \E i, j \in 1..Len(order) : i < j /\ order[i] = a /\ order[j] = b

\* the last call was name, as seen by the "call" observer
Called(name) == observer = "call" /\ op.name = name

PreLen == Cardinality(pre.kv_storage)

----------------------------------------------------------------------------
\* C1: in every reachable state len() <= max_len().
C1_LenWithinMaxLen == Cardinality(kv_storage) <= max_len

\* a resize below the length has evicted and left the cache full
C1_Witness ==
    /\ Called("resize") /\ panic = ""
    /\ op.n < PreLen
    /\ Cardinality(kv_storage) = max_len

\* C2: between public operations the keys of the lookup index are the keys
\* of the recency queue, the queue holds no key twice, and the queue is as
\* long as len().
C2_IndexMatchesQueue ==
    /\ Keys(kv_storage) = {recency_queue[i].key : i \in 1..Len(recency_queue)}
    /\ \A i, j \in 1..Len(recency_queue) :
           i # j => recency_queue[i].key # recency_queue[j].key
    /\ Len(recency_queue) = Cardinality(kv_storage)

\* a get has hit in a cache of several entries
C2_Witness ==
    /\ Called("get") /\ panic = ""
    /\ ret # None
    /\ Len(recency_queue) >= 2

\* C3: insert(k, v) of an absent key into a full cache removes exactly the
\* front entry of the recency queue, returns None, and leaves k with value v
\* at the back of the queue and len() as it was.
C3_InsertEvictsFront ==
    (Called("insert") /\ op.key \notin Keys(pre.kv_storage)
                      /\ PreLen = pre.max_len)
    => /\ panic = ""
       /\ ret = None
       /\ pre.recency_queue # <<>>
       /\ Head(pre.recency_queue) \in pre.kv_storage
       /\ kv_storage = (pre.kv_storage \ {Head(pre.recency_queue)})
                           \cup {Node(op.key, op.val)}
       /\ recency_queue = Append(Tail(pre.recency_queue), Node(op.key, op.val))
       /\ Cardinality(kv_storage) = PreLen

\* an absent key was inserted into a full cache of at least two entries
C3_Witness ==
    /\ Called("insert") /\ panic = ""
    /\ op.key \notin Keys(pre.kv_storage)
    /\ PreLen = pre.max_len
    /\ PreLen >= 2

\* C4: insert(k, v) of a present key with value old returns Some((k, old)),
\* leaves len() unchanged, and afterwards k maps to v and is at the back of
\* the recency queue.
C4_InsertPresentReplaces ==
    (Called("insert") /\ op.key \in Keys(pre.kv_storage))
    => /\ panic = ""
       /\ ret = Some(Pair(op.key, EntryOf(pre.kv_storage, op.key).value))
       /\ Cardinality(kv_storage) = PreLen
       /\ StgGet(kv_storage, op.key) = Some(Node(op.key, op.val))
       /\ recency_queue # <<>>
       /\ recency_queue[Len(recency_queue)] = Node(op.key, op.val)

\* the least recently used key of a full cache was inserted again with
\* another value
C4_Witness ==
    /\ Called("insert") /\ panic = ""
    /\ PreLen = pre.max_len
    /\ PreLen >= 2
    /\ Head(pre.recency_queue).key = op.key
    /\ Head(pre.recency_queue).value # op.val

\* C5: get(k) of a present key returns the value of the latest insert(k, _)
\* and moves k to the back of the recency queue; a key renewed by a get is
\* evicted only after every key that was touched before it and not since.
C5_GetRenews ==
    /\ (Called("get") /\ op.key \in Keys(pre.kv_storage))
       => /\ panic = ""
          /\ ret = Some(lastIns[op.key])
          /\ kv_storage = pre.kv_storage
          /\ recency_queue =
                 Append(WithoutKey(pre.recency_queue, op.key),
                        Node(op.key, lastIns[op.key]))
    /\ (watched # 0 /\ watched \notin Keys(kv_storage))
       => \A j \in KeySet :
              Before(touchOrder, j, watched) => j \notin Keys(kv_storage)

\* a key renewed by a get has been evicted, after an older key of the cache
C5_Witness ==
    /\ observer = "history" /\ panic = ""
    /\ watched # 0
    /\ watched \notin Keys(kv_storage)
    /\ \E j \in KeySet : Before(touchOrder, j, watched)
    /\ kv_storage # {}

\* C6: get(k) of an absent key returns None and changes nothing: index,
\* recency order, len() and max_len() are as before.
C6_GetAbsentNoEffect ==
    (Called("get") /\ op.key \notin Keys(pre.kv_storage))
    => /\ panic = ""
       /\ ret = None
       /\ kv_storage = pre.kv_storage
       /\ recency_queue = pre.recency_queue
       /\ Cardinality(kv_storage) = PreLen
       /\ max_len = pre.max_len
       /\ strong_count = pre.strong_count

\* a get has missed in a cache that holds other keys
C6_Witness ==
    /\ Called("get") /\ panic = ""
    /\ op.key \notin Keys(pre.kv_storage)
    /\ PreLen >= 2

\* the number of entries a resize to op.n has to evict
Excess == IF PreLen > op.n THEN PreLen - op.n ELSE 0

\* C7: resize(n) with n < max_len() on a non-empty cache removes exactly
\* max(len() - n, 0) entries from the front of the recency queue, returns
\* those pairs least recently used first, and keeps the other entries with
\* their values and order.
C7_ResizeShrinkEvictsLru ==
    (Called("resize") /\ op.n < pre.max_len /\ pre.kv_storage # {})
    => /\ panic = ""
       /\ ret = [i \in 1..Excess |-> Pair(pre.recency_queue[i].key,
                                          pre.recency_queue[i].value)]
       /\ recency_queue =
              SubSeq(pre.recency_queue, Excess + 1, Len(pre.recency_queue))
       /\ kv_storage = {pre.recency_queue[i] :
                            i \in (Excess + 1)..Len(pre.recency_queue)}
       /\ kv_storage \subseteq pre.kv_storage
       /\ Cardinality(kv_storage) = PreLen - Excess

\* a resize has evicted two entries or more
C7_Witness ==
    /\ Called("resize") /\ panic = ""
    /\ op.n < pre.max_len
    /\ Excess >= 2
    /\ Len(ret) = Excess

\* C8 as stated: resize(n) with n < max_len() on an empty cache returns an
\* empty vector and afterwards max_len() = n.
C8_ResizeEmptyLowersCapacity ==
    (Called("resize") /\ op.n < pre.max_len /\ pre.kv_storage = {})
    => /\ panic = ""
       /\ ret = <<>>
       /\ max_len = op.n

\* C9: resize(n) on a non-empty cache ends with max_len() = n and
\* len() = min(len() before the call, n).
C9_ResizeSetsCapacity ==
    (Called("resize") /\ pre.kv_storage # {})
    => /\ panic = ""
       /\ max_len = op.n
       /\ Cardinality(kv_storage) = IF PreLen < op.n THEN PreLen ELSE op.n

\* the capacity of a non-empty cache was lowered, to no less than its length
C9_Witness ==
    /\ Called("resize") /\ panic = ""
    /\ pre.kv_storage # {}
    /\ op.n < pre.max_len
    /\ op.n >= PreLen

\* C10: resize(n) with n >= max_len() returns an empty vector and removes
\* nothing: entries, values, recency order and len() are unchanged, only the
\* capacity changes.
C10_ResizeGrowKeepsAll ==
    (Called("resize") /\ op.n >= pre.max_len)
    => /\ panic = ""
       /\ ret = <<>>
       /\ kv_storage = pre.kv_storage
       /\ recency_queue = pre.recency_queue
       /\ Cardinality(kv_storage) = PreLen
       /\ strong_count = pre.strong_count
       /\ max_len = op.n

\* the capacity of a cache of several entries was raised
C10_Witness ==
    /\ Called("resize") /\ panic = ""
    /\ op.n > pre.max_len
    /\ Len(pre.recency_queue) >= 2

\* C11: insert(k, v) of an absent key with len() < max_len() removes no
\* entry, returns None and raises len() by exactly 1 (so after a resize has
\* raised the capacity new keys evict nothing until len() reaches it).
C11_InsertWithRoomAdds ==
    (Called("insert") /\ op.key \notin Keys(pre.kv_storage)
                      /\ PreLen < pre.max_len)
    => /\ panic = ""
       /\ ret = None
       /\ kv_storage = pre.kv_storage \cup {Node(op.key, op.val)}
       /\ recency_queue = Append(pre.recency_queue, Node(op.key, op.val))
       /\ Cardinality(kv_storage) = PreLen + 1
       /\ max_len = pre.max_len

\* an absent key was inserted into a cache of several entries that had room
C11_Witness ==
    /\ Called("insert") /\ panic = ""
    /\ op.key \notin Keys(pre.kv_storage)
    /\ PreLen >= 2
    /\ PreLen < pre.max_len

\* C12: every public operation completes without a panic in every reachable
\* state: no assertion of the code fails.
C12_NoPanic == panic = ""

\* the only entry of a cache of capacity 1 was evicted by an insert
C12_Witness ==
    /\ Called("insert") /\ panic = ""
    /\ op.key \notin Keys(pre.kv_storage)
    /\ PreLen = 1
    /\ pre.max_len = 1
    /\ Keys(kv_storage) = {op.key}

\* C13: iter() yields each stored (key, value) pair exactly once, len() items
\* in total, and changes nothing: entries, recency order (hence the order of
\* later evictions), capacity and share counts stay as they were.
C13_IterYieldsAllOnce ==
    Called("iter")
    => /\ panic = ""
       /\ Len(ret) = Cardinality(kv_storage)
       /\ Range(ret) = {into_pair(e) : e \in kv_storage}
       /\ \A i, j \in 1..Len(ret) : i # j => ret[i] # ret[j]
       /\ Snapshot = pre

\* iter() ran over a cache of several entries
C13_Witness ==
    /\ Called("iter") /\ panic = ""
    /\ Len(ret) >= 2
    /\ Len(recency_queue) >= 2

\* C14: the capacity is never zero: max_len() >= 1 in every reachable state,
\* from construction (new() gives 1) and through every resize.
C14_CapacityPositive == max_len >= 1

\* a resize lowered the capacity of a cache to the least capacity, 1
C14_Witness ==
    /\ Called("resize") /\ panic = ""
    /\ op.n = 1
    /\ pre.max_len > 1
    /\ max_len = 1

\* the keys the last call removed from the cache
Gone == Keys(pre.kv_storage) \ Keys(kv_storage)

\* C15: an insert removes a key other than the inserted one only when the
\* inserted key is absent and len() = max_len(), and then exactly one; an
\* insert of a present key removes no other entry, full cache or not.
C15_InsertRemovesOtherOnlyWhenFull ==
    Called("insert")
    => /\ panic = ""
       /\ Gone \ {op.key} # {}
            => /\ op.key \notin Keys(pre.kv_storage)
               /\ PreLen = pre.max_len
               /\ Cardinality(Gone) = 1
       /\ op.key \in Keys(pre.kv_storage)
            => /\ Keys(kv_storage) = Keys(pre.kv_storage)
               /\ \A e \in pre.kv_storage : e.key # op.key => e \in kv_storage

\* a present key that is not the least recently used one was inserted into a
\* full cache of several entries
C15_Witness ==
    /\ Called("insert") /\ panic = ""
    /\ op.key \in Keys(pre.kv_storage)
    /\ PreLen = pre.max_len
    /\ PreLen >= 2
    /\ Head(pre.recency_queue).key # op.key

\* the keys of the entries of q, in the order of q
KeysOf(q) == [i \in 1..Len(q) |-> q[i].key]

\* C16: the cache refines the reference LRU cache: after any calls of insert,
\* get and resize the recency queue, front to back, lists exactly the present
\* keys in the order of their last touch, oldest first, the cache holds the
\* reference's entries, and every result equalled the reference's.
C16_RefinesReferenceLru ==
    /\ panic = ""
    /\ observer = "history"
         => KeysOf(recency_queue)
              = SelectSeq(touchOrder, LAMBDA k : k \in Keys(kv_storage))
    /\ observer = "reference"
         => /\ agree
            /\ recency_queue = RefEntries(ref)
            /\ kv_storage = Range(recency_queue)

\* the number of distinct other keys touched since the last touch of k
TouchedSince(order, k) ==
    Cardinality({i \in 1..Len(order) : \E j \in 1..Len(order) : j < i /\ order[j] = k})

\* C17: retention bound.  In a step that does not lower the capacity a
\* present key k is removed only by the insert of an absent key, and only
\* when that insert makes the number of distinct other keys touched since the
\* last touch of k reach max_len(); with fewer such keys k stays present.
C17_RetentionBound ==
    [][observer = "history"
       => \A k \in Keys(kv_storage) :
            (k \notin Keys(kv_storage') /\ max_len' >= max_len)
            => /\ Keys(kv_storage') \ Keys(kv_storage) # {}
               /\ TouchedSince(touchOrder', k) = max_len'
               /\ TouchedSince(touchOrder, k) < max_len]_vars

\* a touched key is gone from a full cache of capacity 2 or more and exactly
\* max_len() other keys were touched after it
C17_Witness ==
    /\ observer = "history" /\ panic = ""
    /\ max_len >= 2
    /\ Len(recency_queue) = max_len
    /\ \E k \in Range(touchOrder) :
         k \notin Keys(kv_storage) /\ TouchedSince(touchOrder, k) = max_len

\* the queue entries that the last call, an insert or a hitting get, is to
\* keep: all but the front when an absent key went into a full cache
Kept ==
    IF op.name = "insert" /\ op.key \notin Keys(pre.kv_storage)
                          /\ PreLen = pre.max_len
    THEN Tail(pre.recency_queue)
    ELSE pre.recency_queue

\* C18: insert(k, v) and a hitting get(k) leave the value of every other
\* retained key and the relative recency order of the other retained entries
\* as they were; only the entry and position of k change, and the front entry
\* goes when an absent key is inserted into a full cache.
C18_TouchKeepsOthers ==
    (Called("insert") \/ (Called("get") /\ op.key \in Keys(pre.kv_storage)))
    => /\ panic = ""
       /\ WithoutKey(recency_queue, op.key) = WithoutKey(Kept, op.key)
       /\ {e \in kv_storage : e.key # op.key}
            = {e \in Range(Kept) : e.key # op.key}
       /\ op.key \in Keys(kv_storage)
       /\ recency_queue[Len(recency_queue)].key = op.key
       /\ max_len = pre.max_len

\* a get hit the middle entry of a queue of three
C18_Witness ==
    /\ Called("get") /\ panic = ""
    /\ Len(pre.recency_queue) = 3
    /\ pre.recency_queue[2].key = op.key
    /\ ret # None

\* C19: idempotence.  Right after insert(k, v) a second insert(k, v) returns
\* Some((k, v)) and leaves entries, recency order, len() and max_len() as the
\* first left them; right after a hitting get(k) a second get(k) returns the
\* same and leaves the cache as the first left it.
C19_RepeatIsIdempotent ==
    /\ Called("insert")
         => /\ panic = ""
            /\ insert(Self, op.key, op.val)
                 = [c |-> Self, ret |-> Some(Pair(op.key, op.val))]
    /\ (Called("get") /\ ret # None)
         => /\ panic = ""
            /\ get(Self, op.key) = [c |-> Self, ret |-> ret]

\* an insert was repeated on a cache of several entries: it returned the pair
\* it put in again
C19_Witness ==
    /\ Called("insert") /\ panic = ""
    /\ ret = Some(Pair(op.key, op.val))
    /\ pre.recency_queue[Len(pre.recency_queue)] = Node(op.key, op.val)
    /\ Len(recency_queue) >= 2

\* C20: share counts.  Between public operations every stored entry is held
\* by exactly two holders, the index and the recency queue, and no other node
\* is held; an entry turned back into a (key, value) pair has count 1 and
\* drop_from_queue sees the count go from 2 to 1, so no share-count assertion
\* fails.
C20_ShareCounts ==
    /\ panic = ""
    /\ \A k \in KeySet :
         strong_count[k] = IF k \in Keys(kv_storage) THEN 2 ELSE 0
    /\ \A e \in kv_storage : is_linked(Self, e)

\* a resize turned evicted entries into pairs and kept others
C20_Witness ==
    /\ Called("resize") /\ panic = ""
    /\ Len(ret) >= 1
    /\ kv_storage # {}
    /\ \A i \in 1..Len(ret) : pre.strong_count[ret[i][1]] = 2
                              /\ strong_count[ret[i][1]] = 0

====
